---- MODULE Spec2Model ----
(***************************************************************************)
(* Model of dev_server.py: a static file server built from                 *)
(* socketserver.TCPServer and http.server.SimpleHTTPRequestHandler with    *)
(* two overrides, end_headers (three cache-disabling headers) and          *)
(* log_message (colour chosen from args[1]).                               *)
(*                                                                         *)
(* The handler's methods are operators over a handler record h; each one   *)
(* appends to h.eff the observable effects it has, in program order        *)
(* (a line printed on stdout, a block written to the connection, the copy  *)
(* of the file to the connection).  The actions run the main program: the  *)
(* banner, the bind, the accept loop, one handler at a time, and the       *)
(* KeyboardInterrupt path.                                                 *)
(*                                                                         *)
(* The handler class keeps protocol_version HTTP/1.0 and timeout None, so  *)
(* a connection carries one request, there is no 100 Continue and no read  *)
(* timeout; request lines longer than 65536 bytes (414) are not modelled.  *)
(***************************************************************************)
EXTENDS Integers, Sequences, FiniteSets, TLC

\* ------------------------------------------------------------------ bounds
NConn == 2        \* connections the clients open during one run
MaxTime == 1      \* modification times and If-Modified-Since values, in seconds
MaxWrites == 1    \* times the served file is rewritten on disk

\* --------------------------------------------------------------- constants
PORT == 8000

GREEN == "\\033[92m"
BLUE == "\\033[94m"
YELLOW == "\\033[93m"
RED == "\\033[91m"
DEFAULT == "\\033[0m"
reset_color == "\\033[0m"

CacheHeaders == <<"Cache-Control", "Pragma", "Expires">>

NoConn == 0
Conns == 1..NConn
NoIMS == -1
NoCode == 0

\* ------------------------------------------------------------- the inputs
Commands == {"GET", "HEAD", "POST"}
Paths == {"/app.js", "/nope", "/sub", "/sub/"}
Versions == {"HTTP/1.1", "HTTP/2.0", "HTTP/x"}

\* A request line is the sequence of its whitespace-separated words.
RequestLines ==
    {<<>>, <<"GARBAGE">>}
    \cup {<<c, p>> : c \in Commands, p \in {"/app.js"}}
    \cup {<<c, p, v>> : c \in Commands, p \in Paths, v \in {"HTTP/1.1"}}
    \cup {<<"GET", "/app.js", v>> : v \in Versions}
    \cup {<<"GET", "/a", "b", "HTTP/1.1">>}

\* If-Modified-Since (a time in seconds, or absent) and If-None-Match.
Requests ==
    [line : RequestLines, ims : {NoIMS} \cup (0..MaxTime), inm : BOOLEAN]

\* ------------------------------------------------------------ the strings
\* A string is the sequence of its pieces, the first piece its first character.
DigitChar == <<"0", "1", "2", "3", "4", "5", "6", "7", "8", "9">>

str(n) ==
    <<DigitChar[(n \div 100) + 1], DigitChar[((n \div 10) % 10) + 1],
      DigitChar[(n % 10) + 1]>>

startswith(s, ch) == Len(s) >= 1 /\ s[1] = ch

\* ----------------------------------------------------- the handler record
NewHandler(c) ==
    [client_address |-> c, requestline |-> <<>>, request_version |-> "",
     command |-> "", path |-> "", buf |-> <<>>, eff |-> <<>>,
     code |-> NoCode, f |-> "none", ok |-> TRUE, exc |-> ""]

Live(h) == h.exc = ""
Emit(h, e) == [h EXCEPT !.eff = Append(@, e)]
Raise(h, e) == [h EXCEPT !.exc = e, !.eff = Append(@, [op |-> "raise", exc |-> e])]

\* ---------------------------------------------------------- log_message
\* Mutant: the colours of the 3xx and 4xx branches exchanged.
status_color_swapped(status_code) ==
    IF startswith(status_code, "2") THEN GREEN
    ELSE IF startswith(status_code, "3") THEN YELLOW
    ELSE IF startswith(status_code, "4") THEN BLUE
    ELSE IF startswith(status_code, "5") THEN RED
    ELSE DEFAULT

status_color_of(status_code) ==
    IF startswith(status_code, "2") THEN GREEN
    ELSE IF startswith(status_code, "3") THEN BLUE
    ELSE IF startswith(status_code, "4") THEN YELLOW
    ELSE IF startswith(status_code, "5") THEN RED
    ELSE DEFAULT

\* The printed line: address and timestamp, then the colour, the message, the reset.
LogLine(h, format, status_color) ==
    [kind |-> "log", addr |-> h.client_address, fmt |-> format,
     segs |-> <<"address", "timestamp", status_color, "message", reset_color>>]

\* args[1] of the code is args[2] here (sequences start at 1).
log_message(h, format, args) ==
    IF ~Live(h) THEN h
    ELSE IF Len(args) < 2 THEN Raise(h, "IndexError")
    ELSE Emit(h, [op |-> "print",
                  line |-> LogLine(h, format, status_color_of(args[2]))])

log_request(h, code) ==
    log_message(h, "request", <<h.requestline, str(code), <<"-">>>>)

\* Mutant: log_error prints nothing.
log_error_silent(h, format, args) == h

log_error(h, format, args) == log_message(h, format, args)

\* ------------------------------------------------- the response headers
default_request_version == "HTTP/0.9"

send_response_only(h, code) ==
    IF ~Live(h) THEN h
    ELSE IF h.request_version # "HTTP/0.9"
         THEN [h EXCEPT !.buf = Append(@, "status-line"), !.code = code]
         ELSE [h EXCEPT !.code = code]

send_header(h, keyword) ==
    IF ~Live(h) THEN h
    ELSE IF h.request_version # "HTTP/0.9"
         THEN [h EXCEPT !.buf = Append(@, keyword)]
         ELSE h

flush_headers(h) ==
    [Emit(h, [op |-> "write", part |-> "head", code |-> h.code, lines |-> h.buf])
       EXCEPT !.buf = <<>>]

base_end_headers(h) ==
    IF ~Live(h) THEN h
    ELSE IF h.request_version # "HTTP/0.9"
         THEN flush_headers([h EXCEPT !.buf = Append(@, "blank")])
         ELSE h

\* Mutant: the override is missing, the headers end as in the base class.
end_headers_plain(h) == base_end_headers(h)

end_headers(h) ==
    base_end_headers(
        send_header(send_header(send_header(h, "Cache-Control"), "Pragma"), "Expires"))

\* Mutant: the status line is queued without logging the request.
send_response_silent(h, code) ==
    send_header(send_header(send_response_only(h, code), "Server"), "Date")

send_response(h, code) ==
    send_header(send_header(send_response_only(log_request(h, code), code),
                            "Server"), "Date")

\* ------------------------------------------------------------ send_error
Msg_BadVersion == <<"B", "ad request version">>
Msg_BadSyntax == <<"B", "ad request syntax">>
Msg_BadType == <<"B", "ad HTTP/0.9 request type">>
Msg_InvalidVersion == <<"I", "nvalid HTTP version">>
Msg_Unsupported == <<"U", "nsupported method">>
Msg_NotFound == <<"F", "ile not found">>

HasErrorBody(code) == code >= 200 /\ code \notin {204, 205, 304}

send_error(h, code, message) ==
    LET h1 == log_error(h, "error", <<code, message>>)
        h2 == send_header(send_response(h1, code), "Connection")
        h3 == IF HasErrorBody(code)
              THEN send_header(send_header(h2, "Content-Type"), "Content-Length")
              ELSE h2
        h4 == end_headers(h3)
    IN  IF ~Live(h4) THEN h4
        ELSE IF h4.command # "HEAD" /\ HasErrorBody(code)
             THEN Emit(h4, [op |-> "write", part |-> "body", code |-> code,
                            lines |-> <<"error_html">>])
             ELSE h4

\* --------------------------------------------------------- parse_request
\* The version word parsed to (major, minor); <<>> when it does not parse.
version_number(version) ==
    IF version = "HTTP/1.0" THEN <<1, 0>>
    ELSE IF version = "HTTP/1.1" THEN <<1, 1>>
    ELSE IF version = "HTTP/2.0" THEN <<2, 0>>
    ELSE <<>>

Failed(h) == [h EXCEPT !.ok = FALSE]

parse_request(h0, req) ==
    LET words == req.line
        n == Len(words)
        h == [h0 EXCEPT !.command = "None",
                        !.request_version = default_request_version,
                        !.requestline = words]
    IN  IF n = 0 THEN Failed(h)
        ELSE IF n >= 3 /\ version_number(words[n]) = <<>>
             THEN Failed(send_error(h, 400, Msg_BadVersion))
        ELSE IF n >= 3 /\ version_number(words[n])[1] >= 2
             THEN Failed(send_error(h, 505, Msg_InvalidVersion))
        ELSE LET h1 == IF n >= 3 THEN [h EXCEPT !.request_version = words[n]]
                       ELSE h
             IN  IF ~(2 <= n /\ n <= 3)
                 THEN Failed(send_error(h1, 400, Msg_BadSyntax))
                 ELSE IF n = 2 /\ words[1] # "GET"
                      THEN Failed(send_error(h1, 400, Msg_BadType))
                      ELSE [h1 EXCEPT !.command = words[1], !.path = words[2]]

\* ------------------------------------------------------------- send_head
\* The served directory: one file, one sub-directory without an index file.
isdir(path) == path \in {"/sub", "/sub/"}
endswith_slash(path) == path \in {"/sub/"}
isfile(path) == path = "/app.js"

list_directory(h) ==
    [end_headers(send_header(send_header(send_response(h, 200),
                                         "Content-type"), "Content-Length"))
       EXCEPT !.f = "listing"]

\* mtime is the file's modification time with the microseconds removed.
NotModified(req, mtime) ==
    req.ims # NoIMS /\ ~req.inm /\ mtime <= req.ims

send_head(h, req, mtime) ==
    IF isdir(h.path)
    THEN IF ~endswith_slash(h.path)
         THEN end_headers(send_header(send_header(send_response(h, 301),
                                                  "Location"), "Content-Length"))
         ELSE list_directory(h)
    ELSE IF ~isfile(h.path)
         THEN send_error(h, 404, Msg_NotFound)
    ELSE IF NotModified(req, mtime)
         THEN end_headers(send_response(h, 304))
    ELSE [end_headers(send_header(send_header(send_header(send_response(h, 200),
                          "Content-type"), "Content-Length"), "Last-Modified"))
            EXCEPT !.f = "file"]

copyfile(h) ==
    IF ~Live(h) \/ h.f = "none" THEN h
    ELSE Emit(h, [op |-> "copyfile", part |-> "body", code |-> h.code,
                  lines |-> <<h.f>>])

do_GET(h, req, mtime) == copyfile(send_head(h, req, mtime))

do_HEAD(h, req, mtime) == send_head(h, req, mtime)

handle_one_request(h0, req, mtime) ==
    LET h == parse_request(h0, req)
    IN  IF ~h.ok THEN h
        ELSE IF h.command = "GET" THEN do_GET(h, req, mtime)
        ELSE IF h.command = "HEAD" THEN do_HEAD(h, req, mtime)
        ELSE send_error(h, 501, Msg_Unsupported)

\* ================================================================ the state
VARIABLES
    pc,          \* the main program: banner, bind, serve, handle, stopping, closing, exit
    out,         \* the lines printed on standard output, in order
    sock,        \* the listening socket: none, listening, closed
    exitStatus,  \* running, ok, OSError, KeyboardInterrupt
    sigints,     \* where the main program was at each interrupt received
    client,      \* each connection as its client sees it
    backlog,     \* the connections made and not yet accepted, oldest first
    cur,         \* the connection the handler is serving, or NoConn
    hpc,         \* the handler: idle, readline, run
    reqline,     \* the request line the handler read
    reqver,      \* the handler's request_version
    todo,        \* the effects the handler has still to perform
    wire,        \* the blocks written to the current connection
    trace,       \* the events of the current request, in order
    status,      \* the response code decided for each connection
    served,      \* how each connection's handler ended
    nErr,        \* the tracebacks handle_error printed on standard error
    fileMtime,   \* the served file's modification time
    fileVer      \* the served file's content

vars ==
    <<pc, out, sock, exitStatus, sigints, client, backlog, cur, hpc, reqline,
      reqver, todo, wire, trace, status, served, nErr, fileMtime, fileVer>>

srvVars == <<pc, out, sock, exitStatus, sigints>>
hdlVars == <<cur, hpc, reqline, reqver, todo, wire, trace>>
fileVars == <<fileMtime, fileVer>>

Banner ==
    <<[kind |-> "banner", text |-> "Starting server at http://localhost", port |-> PORT,
       color |-> "\\033[1;32m"],
      [kind |-> "banner", text |-> "Press Ctrl+C to stop the server", port |-> PORT,
       color |-> "\\033[1;33m"],
      [kind |-> "banner", text |-> "Serving files from", port |-> PORT,
       color |-> "\\033[1;34m"],
      [kind |-> "banner", text |-> "No-cache headers enabled", port |-> PORT,
       color |-> "\\033[1;36m"]>>

StoppedLine == [kind |-> "stopped", text |-> "Server stopped", color |-> "\\033[1;31m"]

Init ==
    /\ pc = "banner"
    /\ out = <<>>
    /\ sock = "none"
    /\ exitStatus = "running"
    /\ sigints = <<>>
    /\ client = [c \in Conns |-> "idle"]
    /\ backlog = <<>>
    /\ cur = NoConn
    /\ hpc = "idle"
    /\ reqline = <<>>
    /\ reqver = ""
    /\ todo = <<>>
    /\ wire = <<>>
    /\ trace = <<>>
    /\ status = [c \in Conns |-> NoCode]
    /\ served = [c \in Conns |-> "no"]
    /\ nErr = 0
    /\ fileMtime = 0
    /\ fileVer = 0

\* ------------------------------------------------------- the main program
\* Mutant: the last banner line is not printed.
PrintBanner_short ==
    /\ pc = "banner"
    /\ out' = Append(out, Banner[Len(out) + 1])
    /\ pc' = IF Len(out) + 2 = Len(Banner) THEN "bind" ELSE "banner"
    /\ UNCHANGED <<sock, exitStatus, sigints, client, backlog, hdlVars, status,
                   served, nErr, fileVars>>

\* Lines 36-39: the four print calls, one line each.
PrintBanner ==
    /\ pc = "banner"
    /\ out' = Append(out, Banner[Len(out) + 1])
    /\ pc' = IF Len(out) + 1 = Len(Banner) THEN "bind" ELSE "banner"
    /\ UNCHANGED <<sock, exitStatus, sigints, client, backlog, hdlVars, status,
                   served, nErr, fileVars>>

\* Line 41: the constructor binds and listens.
BindOk ==
    /\ pc = "bind"
    /\ sock' = "listening"
    /\ pc' = "serve"
    /\ UNCHANGED <<out, exitStatus, sigints, client, backlog, hdlVars, status,
                   served, nErr, fileVars>>

\* Mutant: the constructor is inside the try and OSError is caught like the
\* interrupt.
BindFail_caught ==
    /\ pc = "bind"
    /\ sock' = "closed"
    /\ pc' = "stopping"
    /\ exitStatus' = "OSError"
    /\ UNCHANGED <<out, sigints, client, backlog, hdlVars, status, served, nErr,
                   fileVars>>

\* Line 41: bind raises OSError; the constructor closes the socket and re-raises,
\* nothing catches it.
BindFail ==
    /\ pc = "bind"
    /\ sock' = "closed"
    /\ pc' = "exit"
    /\ exitStatus' = "OSError"
    /\ UNCHANGED <<out, sigints, client, backlog, hdlVars, status, served, nErr,
                   fileVars>>

\* Mutant: a threading server, accepting while a handler runs.
CanAccept_threaded == pc \in {"serve", "handle"}

\* TCPServer handles a request in the thread of serve_forever: the next accept
\* waits for process_request to return.
CanAccept == pc = "serve"

\* serve_forever: select reports the socket readable, get_request accepts.
Accept ==
    /\ CanAccept
    /\ sock = "listening"
    /\ backlog # <<>>
    /\ cur' = Head(backlog)
    /\ backlog' = Tail(backlog)
    /\ pc' = "handle"
    /\ hpc' = "readline"
    /\ reqline' = <<>>
    /\ reqver' = ""
    /\ todo' = <<>>
    /\ wire' = <<>>
    /\ trace' = <<>>
    /\ UNCHANGED <<out, sock, exitStatus, sigints, client, status, served, nErr,
                   fileVars>>

\* ------------------------------------------------------------ the handler
\* handle_one_request: readline returns the request line, the request is parsed
\* and answered; the effects are performed one at a time by the steps below.
ReadRequest ==
    /\ pc = "handle"
    /\ hpc = "readline"
    /\ client[cur] \in {"sent", "reset"}
    /\ \E req \in Requests :
        LET h == handle_one_request(NewHandler(cur), req, fileMtime)
        IN  /\ todo' = h.eff
            /\ reqline' = req.line
            /\ reqver' = h.request_version
            /\ status' = [status EXCEPT ![cur] = h.code]
    /\ hpc' = "run"
    /\ UNCHANGED <<srvVars, client, backlog, cur, wire, trace, served, nErr, fileVars>>

\* Mutant: an Exception of the handler is not caught and ends serve_forever.
after_request_propagate(how) == IF how = "error" THEN "exit" ELSE "serve"

\* Where the main program continues after a handler ended: process_request
\* returned ("done", "empty"), or raised an Exception that handle_error
\* reported ("error"). Either way serve_forever goes on.
after_request(how) == "serve"

EndRequest(how) ==
    /\ served' = [served EXCEPT ![cur] = how]
    /\ client' = [client EXCEPT ![cur] = "done"]
    /\ cur' = NoConn
    /\ hpc' = "idle"
    /\ reqline' = <<>>
    /\ reqver' = ""
    /\ todo' = <<>>
    /\ wire' = <<>>
    /\ trace' = <<>>

\* readline returns nothing: the client closed without sending.
ReadEOF ==
    /\ pc = "handle"
    /\ hpc = "readline"
    /\ client[cur] = "eof"
    /\ EndRequest("empty")
    /\ pc' = after_request("empty")
    /\ UNCHANGED <<out, sock, exitStatus, sigints, backlog, status, nErr, fileVars>>

\* print(...) of log_message.
LogStep ==
    /\ pc = "handle"
    /\ hpc = "run"
    /\ todo # <<>>
    /\ Head(todo).op = "print"
    /\ out' = Append(out, Head(todo).line)
    /\ trace' = Append(trace, IF Head(todo).line.fmt = "request"
                              THEN "log_request" ELSE "log_error")
    /\ todo' = Tail(todo)
    /\ UNCHANGED <<pc, sock, exitStatus, sigints, client, backlog, cur, hpc,
                   reqline, reqver, wire, status, served, nErr, fileVars>>

\* wfile.write of the header block (flush_headers) or of an error body.
WriteStep ==
    /\ pc = "handle"
    /\ hpc = "run"
    /\ todo # <<>>
    /\ Head(todo).op = "write"
    /\ wire' = Append(wire, [part |-> Head(todo).part, code |-> Head(todo).code,
                             lines |-> Head(todo).lines, ver |-> 0])
    /\ trace' = Append(trace, IF Head(todo).part = "head" THEN "headers" ELSE "body")
    /\ todo' = Tail(todo)
    /\ UNCHANGED <<srvVars, client, backlog, cur, hpc, reqline, reqver, status,
                   served, nErr, fileVars>>

\* copyfile: the file (or the directory listing) is read and written out.
CopyFileStep ==
    /\ pc = "handle"
    /\ hpc = "run"
    /\ todo # <<>>
    /\ Head(todo).op = "copyfile"
    /\ wire' = Append(wire, [part |-> "body", code |-> Head(todo).code,
                             lines |-> Head(todo).lines,
                             ver |-> IF Head(todo).lines = <<"file">>
                                     THEN fileVer ELSE 0])
    /\ trace' = Append(trace, "body")
    /\ todo' = Tail(todo)
    /\ UNCHANGED <<srvVars, client, backlog, cur, hpc, reqline, reqver, status,
                   served, nErr, fileVars>>

\* An Exception leaves the handler: a write to a connection the client has
\* reset, or a raise inside the handler. _handle_request_noblock catches it,
\* handle_error prints the traceback, shutdown_request closes the connection.
HandleError ==
    /\ pc = "handle"
    /\ hpc = "run"
    /\ todo # <<>>
    /\ \/ Head(todo).op \in {"write", "copyfile"} /\ client[cur] = "reset"
       \/ Head(todo).op = "raise"
    /\ nErr' = nErr + 1
    /\ EndRequest("error")
    /\ pc' = after_request("error")
    /\ UNCHANGED <<out, sock, exitStatus, sigints, backlog, status, fileVars>>

\* The handler returned: process_request calls shutdown_request.
Finish ==
    /\ pc = "handle"
    /\ hpc = "run"
    /\ todo = <<>>
    /\ EndRequest("done")
    /\ pc' = after_request("done")
    /\ UNCHANGED <<out, sock, exitStatus, sigints, backlog, status, nErr, fileVars>>

\* Mutant: an interrupt inside a handler is caught with the handler's
\* exceptions and the loop goes on.
Interrupt_swallowed ==
    /\ pc # "exit"
    /\ sigints' = Append(sigints, pc)
    /\ pc' = IF pc = "serve" THEN "stopping"
             ELSE IF pc = "handle" THEN "serve" ELSE "exit"
    /\ exitStatus' = IF pc \in {"serve", "handle"} THEN exitStatus
                     ELSE "KeyboardInterrupt"
    /\ sock' = IF pc \in {"stopping", "closing"} THEN "closed" ELSE sock
    /\ IF pc = "handle"
       THEN EndRequest("error")
       ELSE UNCHANGED <<hdlVars, client, served>>
    /\ UNCHANGED <<out, backlog, status, nErr, fileVars>>

\* -------------------------------------------------------- KeyboardInterrupt
\* Before the try of line 42 nothing catches it. In serve_forever it reaches the
\* except of line 44, from inside a handler after shutdown_request. In the
\* except clause or in the exit of the with block it ends the process.
Interrupt ==
    /\ pc # "exit"
    /\ sigints' = Append(sigints, pc)
    /\ pc' = IF pc \in {"serve", "handle"} THEN "stopping" ELSE "exit"
    /\ exitStatus' = IF pc \in {"serve", "handle"} THEN exitStatus
                     ELSE "KeyboardInterrupt"
    /\ sock' = IF pc \in {"stopping", "closing"} THEN "closed" ELSE sock
    /\ IF pc = "handle"
       THEN EndRequest("interrupted")
       ELSE UNCHANGED <<hdlVars, client, served>>
    /\ UNCHANGED <<out, backlog, status, nErr, fileVars>>

\* Line 45.
PrintStopped ==
    /\ pc = "stopping"
    /\ out' = Append(out, StoppedLine)
    /\ pc' = "closing"
    /\ UNCHANGED <<sock, exitStatus, sigints, client, backlog, hdlVars, status,
                   served, nErr, fileVars>>

\* The with block of line 41 exits: server_close, then the module ends.
ServerClose ==
    /\ pc = "closing"
    /\ sock' = "closed"
    /\ pc' = "exit"
    /\ exitStatus' = "ok"
    /\ UNCHANGED <<out, sigints, client, backlog, hdlVars, status, served, nErr,
                   fileVars>>

\* ---------------------------------------------------------- the environment
\* What the clients and the developer do is followed while the server is in
\* serve_forever; a connection can be made as long as the socket listens.
Running == pc \in {"serve", "handle"}

\* A client connects; connections are numbered in the order they are made.
ClientConnect(c) ==
    /\ sock = "listening"
    /\ client[c] = "idle"
    /\ \A d \in Conns : d < c => client[d] # "idle"
    /\ client' = [client EXCEPT ![c] = "connected"]
    /\ backlog' = Append(backlog, c)
    /\ UNCHANGED <<srvVars, hdlVars, status, served, nErr, fileVars>>

\* The client sends its request (the request line and the headers).
ClientSend(c) ==
    /\ Running
    /\ client[c] = "connected"
    /\ client' = [client EXCEPT ![c] = "sent"]
    /\ UNCHANGED <<srvVars, backlog, hdlVars, status, served, nErr, fileVars>>

\* The client closes its end: before sending anything, or after its request.
ClientClose(c) ==
    /\ Running
    /\ client[c] \in {"connected", "sent"}
    /\ client' = [client EXCEPT ![c] = IF client[c] = "connected" THEN "eof"
                                       ELSE "reset"]
    /\ UNCHANGED <<srvVars, backlog, hdlVars, status, served, nErr, fileVars>>

\* The developer saves the served file: new content, the same second or a later one.
ModifyFile ==
    /\ Running
    /\ fileVer < MaxWrites
    /\ fileVer' = fileVer + 1
    /\ \E t \in fileMtime..MaxTime : fileMtime' = t
    /\ UNCHANGED <<srvVars, client, backlog, hdlVars, status, served, nErr>>

Next ==
    \/ PrintBanner
    \/ BindOk
    \/ BindFail
    \/ Accept
    \/ ReadRequest
    \/ ReadEOF
    \/ LogStep
    \/ WriteStep
    \/ CopyFileStep
    \/ HandleError
    \/ Finish
    \/ Interrupt
    \/ PrintStopped
    \/ ServerClose
    \/ \E c \in Conns : ClientConnect(c)
    \/ \E c \in Conns : ClientSend(c)
    \/ \E c \in Conns : ClientClose(c)
    \/ ModifyFile

Spec == Init /\ [][Next]_vars

\* ============================================================== the claims
Count(seq, x) == Cardinality({i \in 1..Len(seq) : seq[i] = x})

\* The handler has performed every effect of the request and is about to return.
Completed == pc = "handle" /\ hpc = "run" /\ todo = <<>>
\* ... and the request got a response.
Responded == Completed /\ status[cur] # NoCode

HeadBlocks == {i \in 1..Len(wire) : wire[i].part = "head"}
HasCacheHeaders(block) ==
    \A k \in 1..Len(CacheHeaders) : Count(block.lines, CacheHeaders[k]) = 1

LogLines(c) == {i \in 1..Len(out) : out[i].kind = "log" /\ out[i].addr = c}
LinesOf(c, fmt) == {i \in LogLines(c) : out[i].fmt = fmt}

\* The colour the specification's table gives a status code.
ClassColor(code) ==
    IF code \in 200..299 THEN GREEN
    ELSE IF code \in 300..399 THEN BLUE
    ELSE IF code \in 400..499 THEN YELLOW
    ELSE IF code \in 500..599 THEN RED
    ELSE DEFAULT

\* ---------------------------------------------------------------------- C1
\* C1 as stated: every response, whatever its status and also the error
\* response to a request line that could not be parsed, has a header block
\* with each of the three cache-disabling headers exactly once.
C1_Original ==
    Responded => \E i \in HeadBlocks : HasCacheHeaders(wire[i])

\* C1 amended: every header block written carries Cache-Control, Pragma and
\* Expires exactly once each and the response's status; a response has exactly
\* one header block unless the handler's request_version is HTTP/0.9 (a
\* two-word request line, or a line rejected before its version was accepted),
\* in which case it has no header block at all.
C1_Theorem ==
    /\ \A i \in HeadBlocks :
          HasCacheHeaders(wire[i]) /\ wire[i].code = status[cur]
    /\ Responded =>
          IF reqver = "HTTP/0.9" THEN HeadBlocks = {}
          ELSE Cardinality(HeadBlocks) = 1

C1_Witness ==
    Responded /\ status[cur] = 404 /\ reqver = "HTTP/1.1" /\ HeadBlocks # {}

\* ---------------------------------------------------------------------- C2
\* C2 as stated: a completed request has printed exactly one log line.
C2_Original ==
    Responded => Cardinality(LogLines(cur)) = 1

\* C2 amended: a request that got a response has printed exactly one
\* request line (log_request), and exactly one more line ("code N, message M",
\* log_error) when the response is an error sent by send_error (status 400 and
\* above); a connection that sent no request line, or a blank one, prints none.
C2_Theorem ==
    \A c \in Conns :
        (served[c] = "done" \/ (c = cur /\ Completed)) =>
            /\ Cardinality(LinesOf(c, "request")) = IF status[c] # NoCode THEN 1 ELSE 0
            /\ Cardinality(LinesOf(c, "error")) = IF status[c] >= 400 THEN 1 ELSE 0

C2_Witness ==
    \E c \in Conns :
        served[c] = "done" /\ status[c] = 404 /\ Cardinality(LogLines(c)) = 2

\* ---------------------------------------------------------------------- C3
\* C3 as stated: every line printed for a request whose status is 2xx, 3xx, 4xx
\* or 5xx starts with the colour of that class and ends with the reset, so that
\* the colour covers the address, the timestamp and the summary.
C3_Original ==
    \A i \in 1..Len(out) :
        (out[i].kind = "log" /\ status[out[i].addr] \in 200..599) =>
            /\ out[i].segs[1] = ClassColor(status[out[i].addr])
            /\ out[i].segs[Len(out[i].segs)] = reset_color

\* C3 amended: the request line of a request (log_request) is printed as
\* address, timestamp, then the colour of the status class, the message and
\* the reset: green for 2xx, blue for 3xx, yellow for 4xx, red for 5xx; the
\* address and the timestamp come before the colour. The extra line of an
\* error response (log_error) has the default colour in that place.
C3_Theorem ==
    \A i \in 1..Len(out) :
        out[i].kind = "log" =>
            out[i].segs =
                <<"address", "timestamp",
                  IF out[i].fmt = "request" THEN ClassColor(status[out[i].addr])
                  ELSE DEFAULT,
                  "message", reset_color>>

C3_Witness ==
    \E i, j \in 1..Len(out) :
        /\ out[i].kind = "log" /\ out[j].kind = "log"
        /\ out[i].addr = out[j].addr
        /\ out[i].fmt = "error" /\ out[i].segs[3] = DEFAULT
        /\ out[j].fmt = "request" /\ out[j].segs[3] = YELLOW

\* ---------------------------------------------------------------------- C4
\* A well-formed GET of the existing file.
GetOfFile ==
    /\ Len(reqline) \in {2, 3}
    /\ reqline[1] = "GET"
    /\ reqline[2] = "/app.js"
    /\ Len(reqline) = 3 => reqline[3] = "HTTP/1.1"

\* C4: whatever headers the client sends, the response to a GET of an existing
\* file has status 200 and carries the file's content, never 304.
C4_Claim ==
    (Completed /\ GetOfFile) =>
        /\ status[cur] = 200
        /\ \E i \in 1..Len(wire) :
              wire[i].part = "body" /\ wire[i].lines = <<"file">>

\* ---------------------------------------------------------------------- C5
StoppedCount == Cardinality({i \in 1..Len(out) : out[i].kind = "stopped"})
ServingInterrupt == sigints # <<>> /\ sigints[1] \in {"serve", "handle"}

\* C5: an interrupt received in serve_forever, idle or inside a handler, takes
\* the server out of the accept loop for good; "Server stopped" is printed at
\* most once, only after such an interrupt and with no connection being
\* handled then or later; with that one interrupt the process ends with the
\* message printed exactly once, the listening socket closed, status ok.
C5_Theorem ==
    /\ StoppedCount <= 1
    /\ ServingInterrupt => pc \in {"stopping", "closing", "exit"} /\ cur = NoConn
    /\ StoppedCount = 1 =>
          ServingInterrupt /\ pc \in {"closing", "exit"} /\ cur = NoConn
    /\ (ServingInterrupt /\ Len(sigints) = 1 /\ pc = "exit") =>
          StoppedCount = 1 /\ sock = "closed" /\ exitStatus = "ok"

C5_Witness ==
    /\ pc = "exit" /\ exitStatus = "ok" /\ sigints = <<"handle">>
    /\ StoppedCount = 1 /\ sock = "closed" /\ backlog # <<>>

\* ---------------------------------------------------------------------- C6
InBacklog(c) == \E i \in 1..Len(backlog) : backlog[i] = c
\* The connections accepted and not yet closed by the server.
InProgress ==
    {c \in Conns : client[c] \notin {"idle", "done"} /\ ~InBacklog(c)}

\* C6 as stated: while a connection's request is in progress (its client has
\* not sent the request line yet), the server can accept a second connection.
C6_Original ==
    (pc = "handle" /\ hpc = "readline" /\ client[cur] = "connected"
        /\ backlog # <<>>) => ENABLED Accept

\* C6 amended: connections are handled one at a time in the thread of the
\* accept loop: at most one connection is accepted and not yet closed, it is
\* the one being handled, and every connection made meanwhile stays in the
\* backlog, unanswered, until that handler ends.
C6_Theorem ==
    /\ Cardinality(InProgress) <= 1
    /\ InProgress # {} => pc = "handle" /\ InProgress = {cur}
    /\ \A c \in Conns :
          InBacklog(c) => status[c] = NoCode /\ served[c] = "no"

C6_Witness ==
    /\ pc = "handle" /\ hpc = "readline" /\ client[cur] = "connected"
    /\ \E c \in Conns : InBacklog(c) /\ client[c] = "sent"

\* ---------------------------------------------------------------------- C7
\* C7: whatever requests ended in an error response or in an exception, the
\* server started and not interrupted is in its accept loop (idle or handling
\* the next connection) with the socket listening; the process ends only
\* after an interrupt or a bind failure.
C7_Theorem ==
    /\ (sigints = <<>> /\ exitStatus # "OSError" /\ pc \notin {"banner", "bind"}) =>
          pc \in {"serve", "handle"} /\ sock = "listening" /\ exitStatus = "running"
    /\ pc = "exit" => sigints # <<>> \/ exitStatus = "OSError"

C7_Witness ==
    \E c, d \in Conns :
        /\ c < d
        /\ served[c] = "error" /\ nErr >= 1
        /\ served[d] = "done" /\ status[d] = 200
        /\ pc = "serve" /\ sigints = <<>>

\* ---------------------------------------------------------------------- C8
\* C8: after a bind failure the process has ended with an error, the socket
\* closed, having printed the banner and nothing else; no connection was made,
\* accepted or answered.
C8_Theorem ==
    exitStatus = "OSError" =>
        /\ pc = "exit" /\ sock = "closed" /\ cur = NoConn
        /\ out = Banner
        /\ \A c \in Conns :
              client[c] = "idle" /\ status[c] = NoCode /\ served[c] = "no"

C8_Witness == exitStatus = "OSError" /\ pc = "exit" /\ Len(out) = 4

\* ---------------------------------------------------------------------- C9
\* C9: standard output starts with the four banner lines in their order, each
\* printed once; every other line comes after them; the socket is bound, and a
\* connection made, accepted or logged, only after all four are printed.
C9_Theorem ==
    /\ \A i \in 1..Len(out) :
          IF i <= Len(Banner) THEN out[i] = Banner[i] ELSE out[i].kind # "banner"
    /\ (sock # "none" \/ cur # NoConn \/ \E c \in Conns : client[c] # "idle") =>
          Len(out) >= Len(Banner)
    /\ pc \in {"bind", "serve", "handle", "stopping", "closing"} =>
          Len(out) >= Len(Banner)

C9_Witness ==
    Len(out) > Len(Banner) /\ out[Len(Banner) + 1].kind = "log" /\ pc = "handle"

\* --------------------------------------------------------------------- C10
IsLog(e) == e \in {"log_request", "log_error"}
IsWrite(e) == e \in {"headers", "body"}

\* C10 as stated: the log line of a request is printed after its headers are
\* flushed and its body is sent, never before them.
C10_Original ==
    \A i, j \in 1..Len(trace) :
        (IsLog(trace[i]) /\ IsWrite(trace[j])) => j < i

\* C10 amended: the log lines of a request are printed before anything of the
\* response is written: send_response logs when the status line is queued, so
\* a flushed header block or a body is always preceded by the request's
\* log_request line.
C10_Theorem ==
    /\ \A i, j \in 1..Len(trace) :
          (IsLog(trace[i]) /\ IsWrite(trace[j])) => i < j
    /\ \A j \in 1..Len(trace) :
          IsWrite(trace[j]) => \E i \in 1..(j - 1) : trace[i] = "log_request"

C10_Witness ==
    Completed /\ trace = <<"log_request", "headers", "body">>

====
